---- MODULE Spec2Model ----
(***************************************************************************)
(* Cluster-agreement evaluation of Clustering.ipynb: the two metric calls  *)
(* of the pairwise similarity loop,                                        *)
(*     metrics.adjusted_rand_score(clust1.labels_, clust2.labels_)         *)
(*     metrics.adjusted_mutual_info_score(clust1.labels_, clust2.labels_)  *)
(* The notebook delegates both to scikit-learn (the release contemporary   *)
(* with its Python 3.8 kernel and datasets.load_boston), so the operators  *)
(* below follow that library's sklearn/metrics/cluster/_supervised.py      *)
(* step by step: check_clusterings, the special limit cases, the           *)
(* contingency matrix, then the pair-count formula or the mutual           *)
(* information, its expectation and the entropies.  Arithmetic is exact:   *)
(* rationals <<num, den>> in lowest terms and integer vectors of           *)
(* logarithm coefficients; floating-point rounding is not modelled.        *)
(***************************************************************************)
EXTENDS Integers, Sequences, FiniteSets, TLC

VARIABLES labels_true, labels_pred, rand, mutual,
          pc, step, kernel, models, pair, out

vars == <<labels_true, labels_pred, rand, mutual,
          pc, step, kernel, models, pair, out>>

\* The state of a notebook run: position, kernel namespace, printed output.
nbvars == <<pc, step, kernel, models, pair, out>>

\* The arguments and results of a single metric call.
callvars == <<labels_true, labels_pred, rand, mutual>>

\* Longest label array drawn as an input.
MaxLen == 4

\* Label values the inputs are drawn from: the DBSCAN/HDBSCAN noise sentinel
\* -1 and two ordinary cluster ids.
Labels == {-1, 0, 1}

LabelArrays == UNION {[1..n -> Labels] : n \in 0..MaxLen}

----------------------------------------------------------------------------
\* Exact arithmetic helpers.

RECURSIVE Gcd(_, _)
Gcd(a, b) == IF b = 0 THEN a ELSE Gcd(b, a % b)

Abs(x) == IF x < 0 THEN -x ELSE x

\* num/den (den # 0) in lowest terms with a positive denominator.
Ratio(num, den) ==
    LET g == Gcd(Abs(num), Abs(den))
        s == IF den < 0 THEN -1 ELSE 1
    IN  <<(s * num) \div g, (s * den) \div g>>

RECURSIVE SumOver(_, _)
SumOver(S, f) ==
    IF S = {} THEN 0
    ELSE LET x == CHOOSE y \in S : TRUE
         IN  f[x] + SumOver(S \ {x}, f)

\* Natural logarithms are kept exact: the log of a positive integer whose
\* prime factors are 2, 3 and 5 is the vector of its exponents, standing for
\* v[1]*ln 2 + v[2]*ln 3 + v[3]*ln 5.  Sample counts up to 6 factor so.
RECURSIVE Exponent(_, _)
Exponent(n, p) == IF n % p = 0 THEN 1 + Exponent(n \div p, p) ELSE 0

\* np.log(n) for an integer n >= 1
Log(n) == <<Exponent(n, 2), Exponent(n, 3), Exponent(n, 5)>>

LZero == <<0, 0, 0>>

LAdd(u, v) == <<u[1] + v[1], u[2] + v[2], u[3] + v[3]>>

LSub(u, v) == <<u[1] - v[1], u[2] - v[2], u[3] - v[3]>>

LScale(k, v) == <<k * v[1], k * v[2], k * v[3]>>

RECURSIVE LSumOver(_, _)
LSumOver(S, f) ==
    IF S = {} THEN LZero
    ELSE LET x == CHOOSE y \in S : TRUE
         IN  LAdd(f[x], LSumOver(S \ {x}, f))

RECURSIVE Factorial(_)
Factorial(n) == IF n <= 1 THEN 1 ELSE n * Factorial(n - 1)

Max(x, y) == IF x >= y THEN x ELSE y

Min(x, y) == IF x <= y THEN x ELSE y

----------------------------------------------------------------------------
\* Outcomes of a call: still pending, a returned score, or a raised exception.
\* "at" names the step of the library routine that produced the outcome.
\* A returned score is given in one of three forms ("repr"):
\*   "rational"  the score is the rational "value";
\*   "logratio"  the score is the irrational quotient num/den of two
\*               logarithm vectors ("value" is unused);
\*   "rounding"  exact arithmetic gives a zero denominator, which the code
\*               replaces by the machine epsilon: the float returned is
\*               decided by rounding error alone ("value" is unused).
Pending ==
    [kind |-> "pending", at |-> "", exc |-> "", repr |-> "",
     value |-> <<0, 1>>, num |-> LZero, den |-> LZero]

Return(stage, v) ==
    [kind |-> "return", at |-> stage, exc |-> "", repr |-> "rational",
     value |-> v, num |-> LZero, den |-> LZero]

ReturnLogRatio(stage, n, d) ==
    [kind |-> "return", at |-> stage, exc |-> "", repr |-> "logratio",
     value |-> <<0, 1>>, num |-> n, den |-> d]

ReturnRounding(stage, n) ==
    [kind |-> "return", at |-> stage, exc |-> "", repr |-> "rounding",
     value |-> <<0, 1>>, num |-> n, den |-> LZero]

Raise(stage, e) ==
    [kind |-> "raise", at |-> stage, exc |-> e, repr |-> "",
     value |-> <<0, 1>>, num |-> LZero, den |-> LZero]

One == <<1, 1>>

----------------------------------------------------------------------------
\* sklearn.metrics.cluster._supervised

\* Variant: the lengths are not compared.
check_clusterings_no_length_check(a, b) == "ok"

\* check_clusterings: both arrays are 1-D here; the only check that can fail
\* is check_consistent_length.
check_clusterings(a, b) ==
    IF Len(a) # Len(b) THEN "ValueError" ELSE "ok"

\* np.unique(labels)
unique(labels) == {labels[k] : k \in DOMAIN labels}

\* Variant: pairs counted with repetition.
comb2_with_repetition(n) == (n * (n + 1)) \div 2

\* comb(n, 2, exact=1)
comb2(n) == (n * (n - 1)) \div 2

\* Variant: samples carrying the noise sentinel -1 are left out of the counts.
contingency_matrix_skip_noise(a, b) ==
    [ij \in unique(a) \X unique(b) |->
        Cardinality({k \in DOMAIN a :
            a[k] = ij[1] /\ b[k] = ij[2] /\ a[k] # -1 /\ b[k] # -1})]

\* contingency_matrix: C[i, j] = number of samples with label i in a and
\* label j in b.
contingency_matrix(a, b) ==
    [ij \in unique(a) \X unique(b) |->
        Cardinality({k \in DOMAIN a : a[k] = ij[1] /\ b[k] = ij[2]})]

\* Row sums (axis=1) and column sums (axis=0) of the contingency matrix.
row_sums(C, a, b) ==
    [i \in unique(a) |-> SumOver({i} \X unique(b), C)]

col_sums(C, a, b) ==
    [j \in unique(b) |-> SumOver(unique(a) \X {j}, C)]

sum_comb_c(a, b) ==
    LET r == row_sums(contingency_matrix(a, b), a, b)
    IN  SumOver(DOMAIN r, [i \in DOMAIN r |-> comb2(r[i])])

sum_comb_k(a, b) ==
    LET c == col_sums(contingency_matrix(a, b), a, b)
    IN  SumOver(DOMAIN c, [j \in DOMAIN c |-> comb2(c[j])])

sum_comb(a, b) ==
    LET C == contingency_matrix(a, b)
    IN  SumOver(DOMAIN C, [ij \in DOMAIN C |-> comb2(C[ij])])

\* Variant: the "data is not split" limit case is missing.
ari_special_case_no_single_cluster(a, b) ==
    LET n_samples  == Len(a)
        n_classes  == Cardinality(unique(a))
        n_clusters == Cardinality(unique(b))
    IN  \/ (n_classes = 0 /\ n_clusters = 0)
        \/ (n_classes = n_samples /\ n_clusters = n_samples)

\* Variant: the "each sample its own cluster" limit case is missing.
ari_special_case_no_singletons(a, b) ==
    LET n_classes  == Cardinality(unique(a))
        n_clusters == Cardinality(unique(b))
    IN  \/ (n_classes = 1 /\ n_clusters = 1)
        \/ (n_classes = 0 /\ n_clusters = 0)

\* The special limit cases of adjusted_rand_score: no clustering since the
\* data is not split, or each sample its own cluster.
ari_special_case(a, b) ==
    LET n_samples  == Len(a)
        n_classes  == Cardinality(unique(a))
        n_clusters == Cardinality(unique(b))
    IN  \/ (n_classes = 1 /\ n_clusters = 1)
        \/ (n_classes = 0 /\ n_clusters = 0)
        \/ (n_classes = n_samples /\ n_clusters = n_samples)

\* Variant: the expected index is not subtracted in the numerator.
ari_ratio_uncorrected_numerator(c, scc, sck, sc) ==
    LET num == 2 * c * sc
        den == c * (scc + sck) - 2 * scc * sck
    IN  IF c = 0 \/ den = 0
        THEN Raise("formula", "ZeroDivisionError")
        ELSE Return("formula", Ratio(num, den))

\* (sum_comb - prod_comb) / (mean_comb - prod_comb), with
\*   prod_comb = sum_comb_c * sum_comb_k / comb2(n_samples)
\*   mean_comb = (sum_comb_k + sum_comb_c) / 2
\* both scaled by 2 * comb2(n_samples) to stay in the integers.
\* Python scalars: a zero divisor raises ZeroDivisionError.
ari_ratio(c, scc, sck, sc) ==
    LET num == 2 * (c * sc - scc * sck)
        den == c * (scc + sck) - 2 * scc * sck
    IN  IF c = 0 \/ den = 0
        THEN Raise("formula", "ZeroDivisionError")
        ELSE Return("formula", Ratio(num, den))

\* Variant: the row sums are used for both margins.
ari_formula_rows_twice(a, b) ==
    ari_ratio(comb2(Len(a)), sum_comb_c(a, b), sum_comb_c(a, b), sum_comb(a, b))

ari_formula(a, b) ==
    ari_ratio(comb2(Len(a)), sum_comb_c(a, b), sum_comb_k(a, b), sum_comb(a, b))

\* Variant: no special limit cases before the contingency data is used.
adjusted_rand_score_no_limit_cases(a, b) ==
    IF check_clusterings(a, b) # "ok"
    THEN Raise("check_clusterings", check_clusterings(a, b))
    ELSE ari_formula(a, b)

adjusted_rand_score(a, b) ==
    IF check_clusterings(a, b) # "ok"
    THEN Raise("check_clusterings", check_clusterings(a, b))
    ELSE IF ari_special_case(a, b)
    THEN Return("special_case", One)
    ELSE IF Len(a) # Len(b)
    THEN Raise("contingency_matrix", "ValueError")
    ELSE ari_formula(a, b)

\* The quantities of adjusted_mutual_info_score (mi, emi, the entropies, the
\* normalizer) are rational combinations of logarithms whose coefficients
\* are all multiples of 1 / (2 * N * N!), N the number of samples.  Each is
\* held as the integer logarithm vector of  2 * N * N! * quantity.

\* mutual_info_score(contingency=C):
\*   sum over the nonzero cells of (nij/N) * (log nij - log N)
\*                               + (nij/N) * (-log(ai*bj) + log N + log N)
mutual_info_score(C) ==
    LET N  == SumOver(DOMAIN C, C)
        pi == [i \in {ij[1] : ij \in DOMAIN C} |->
                  SumOver({ij \in DOMAIN C : ij[1] = i}, C)]
        pj == [j \in {ij[2] : ij \in DOMAIN C} |->
                  SumOver({ij \in DOMAIN C : ij[2] = j}, C)]
        nz == {ij \in DOMAIN C : C[ij] > 0}
    IN  LSumOver(nz, [ij \in nz |->
            LScale(2 * Factorial(N) * C[ij],
                   LAdd(LSub(Log(C[ij]), Log(N)),
                        LAdd(LSub(LZero, LAdd(Log(pi[ij[1]]), Log(pj[ij[2]]))),
                             LAdd(Log(N), Log(N)))))])

\* expected_mutual_information(contingency, n_samples): for every cell (i, j)
\* and every nij from max(1, ai + bj - N) to min(ai, bj),
\*   term1 = nij / N
\*   term2 = log(N * nij) - log(ai) - log(bj)
\*   term3 = ai! bj! (N-ai)! (N-bj)!
\*             / (N! nij! (ai-nij)! (bj-nij)! (N-ai-bj+nij)!)
\* N! * term3 is an integer (a product of binomials and factorials).
emi_term(N, ai, bj, nij) ==
    LET term2    == LSub(LAdd(Log(N), Log(nij)), LAdd(Log(ai), Log(bj)))
        term3_N  == (Factorial(ai) * Factorial(bj)
                        * Factorial(N - ai) * Factorial(N - bj))
                    \div (Factorial(nij) * Factorial(ai - nij)
                        * Factorial(bj - nij) * Factorial(N - ai - bj + nij))
    IN  LScale(2 * nij * term3_N, term2)

expected_mutual_information(C, n_samples) ==
    LET N == n_samples
        a == [i \in {ij[1] : ij \in DOMAIN C} |->
                 SumOver({ij \in DOMAIN C : ij[1] = i}, C)]
        b == [j \in {ij[2] : ij \in DOMAIN C} |->
                 SumOver({ij \in DOMAIN C : ij[2] = j}, C)]
        T == {t \in (DOMAIN C) \X (1..N) :
                 /\ t[2] >= Max(1, a[t[1][1]] - N + b[t[1][2]])
                 /\ t[2] <= Min(a[t[1][1]], b[t[1][2]])}
    IN  LSumOver(T, [t \in T |-> emi_term(N, a[t[1][1]], b[t[1][2]], t[2])])

\* entropy(labels): 1.0 for an empty array (not reached: empty inputs return
\* earlier), else -sum (pi/N) * (log pi - log N) over the label counts.
entropy(labels) ==
    LET N  == Len(labels)
        U  == unique(labels)
        pi == [u \in U |-> Cardinality({k \in DOMAIN labels : labels[k] = u})]
    IN  LSub(LZero,
             LSumOver(U, [u \in U |->
                 LScale(2 * Factorial(N) * pi[u], LSub(Log(pi[u]), Log(N)))]))

\* _generalized_average(U, V, "arithmetic") = np.mean([U, V]); the scaled
\* entropies are even, so the halves are exact.
generalized_average(U, V) ==
    <<(U[1] + V[1]) \div 2, (U[2] + V[2]) \div 2, (U[3] + V[3]) \div 2>>

\* Variant: the "data is not split" limit case is missing.
ami_special_case_empty_only(a, b) ==
    Cardinality(unique(a)) = 0 /\ Cardinality(unique(b)) = 0

\* The special limit cases of adjusted_mutual_info_score: the data is not
\* split at all.
ami_special_case(a, b) ==
    LET n_classes  == Cardinality(unique(a))
        n_clusters == Cardinality(unique(b))
    IN  \/ (n_classes = 1 /\ n_clusters = 1)
        \/ (n_classes = 0 /\ n_clusters = 0)

\* n/d for logarithm vectors n and d # LZero: the rational q with n = q*d
\* when there is one, else the pair in lowest terms.
LQuotient(stage, n, d) ==
    LET i == CHOOSE k \in 1..3 : d[k] # 0 /\ \A j \in 1..(k - 1) : d[j] = 0
        q == Ratio(n[i], d[i])
        g == Gcd(Gcd(Gcd(Abs(n[1]), Abs(n[2])), Gcd(Abs(n[3]), Abs(d[1]))),
                 Gcd(Abs(d[2]), Abs(d[3])))
        s == IF d[i] < 0 THEN -1 ELSE 1
    IN  IF LScale(q[2], n) = LScale(q[1], d)
        THEN Return(stage, q)
        ELSE ReturnLogRatio(stage,
                <<(s * n[1]) \div g, (s * n[2]) \div g, (s * n[3]) \div g>>,
                <<(s * d[1]) \div g, (s * d[2]) \div g, (s * d[3]) \div g>>)

\* ami = (mi - emi) / denominator, denominator = normalizer - emi pushed away
\* from zero by the machine epsilon (keeping its sign).
ami_formula(a, b) ==
    LET contingency == contingency_matrix(a, b)
        mi          == mutual_info_score(contingency)
        emi         == expected_mutual_information(contingency, Len(a))
        h_true      == entropy(a)
        h_pred      == entropy(b)
        normalizer  == generalized_average(h_true, h_pred)
        denominator == LSub(normalizer, emi)
    IN  IF denominator = LZero
        THEN ReturnRounding("formula", LSub(mi, emi))
        ELSE LQuotient("formula", LSub(mi, emi), denominator)

adjusted_mutual_info_score(a, b) ==
    IF check_clusterings(a, b) # "ok"
    THEN Raise("check_clusterings", check_clusterings(a, b))
    ELSE IF ami_special_case(a, b)
    THEN Return("special_case", One)
    ELSE IF Len(a) # Len(b)
    THEN Raise("contingency_matrix", "ValueError")
    ELSE ami_formula(a, b)

----------------------------------------------------------------------------
\* The harness: draw two label arrays, then make one of the two calls of
\* Clustering.ipynb lines 656 and 657 on them.  Each behaviour is one
\* invocation of one metric: the calls share nothing but their arguments.

\* No notebook cell has run.
NoKernel == [X |-> "", spectral |-> "", hdb |-> "", boston_df |-> "", ca_df |-> ""]

Init ==
    /\ labels_true \in LabelArrays
    /\ labels_pred \in LabelArrays
    /\ rand = Pending
    /\ mutual = Pending
    /\ pc = "call"
    /\ step = 0
    /\ kernel = NoKernel
    /\ models = << >>
    /\ pair = <<0, 0>>
    /\ out = << >>

RandScore ==
    /\ rand.kind = "pending"
    /\ mutual.kind = "pending"
    /\ rand' = adjusted_rand_score(labels_true, labels_pred)
    /\ UNCHANGED <<labels_true, labels_pred, mutual>>
    /\ UNCHANGED nbvars

MutualInfo ==
    /\ rand.kind = "pending"
    /\ mutual.kind = "pending"
    /\ mutual' = adjusted_mutual_info_score(labels_true, labels_pred)
    /\ UNCHANGED <<labels_true, labels_pred, rand>>
    /\ UNCHANGED nbvars

Next == RandScore \/ MutualInfo

Spec == Init /\ [][Next]_vars

----------------------------------------------------------------------------
\* The notebook, its cells run in order.  The kernel namespace is abstracted
\* to the dataset each name's data came from: X the scaled matrix, spectral
\* and hdb the estimators last fitted, boston_df and ca_df the 'category'
\* column of the two DataFrames.

\* Sample counts of the two datasets (506 and about 20k in the notebook).
BostonSamples == 2

CaliforniaSamples == 3

Samples(dataset) ==
    IF dataset = "boston" THEN BostonSamples ELSE CaliforniaSamples

\* Cluster ids a fitted n_clusters model assigns (two of the four).
ClusterIds == {0, 1}

\* The cells before "Evaluating Clustering" that bind X, fit an estimator
\* or set a 'category' column: each a list of <<name, source>> assignments,
\* the source a dataset or another name of the kernel.
Cells == <<
    [line |-> 98,  assign |-> << <<"X", "boston">> >>],
    [line |-> 132, assign |-> << <<"spectral", "X">> >>],
    [line |-> 165, assign |-> << <<"boston_df", "spectral">> >>],
    [line |-> 253, assign |-> << <<"X", "california">>, <<"spectral", "X">> >>],
    [line |-> 264, assign |-> << <<"ca_df", "spectral">> >>],
    [line |-> 338, assign |-> << <<"X", "boston">> >>],
    [line |-> 354, assign |-> << <<"X", "california">> >>],
    [line |-> 378, assign |-> << <<"X", "california">>, <<"ca_df", "X">> >>],
    [line |-> 403, assign |-> << <<"X", "california">>, <<"ca_df", "X">> >>],
    [line |-> 428, assign |-> << <<"X", "boston">>, <<"boston_df", "X">> >>],
    [line |-> 488, assign |-> << <<"X", "boston">>, <<"hdb", "X">> >>],
    [line |-> 502, assign |-> << <<"boston_df", "hdb">> >>],
    [line |-> 542, assign |-> << <<"X", "california">>, <<"hdb", "X">> >>],
    [line |-> 556, assign |-> << <<"ca_df", "hdb">> >> ] >>

Datasets == {"boston", "california"}

Assign(k, a) ==
    [k EXCEPT ![a[1]] = IF a[2] \in Datasets THEN a[2] ELSE k[a[2]]]

RECURSIVE RunAssignments(_, _)
RunAssignments(k, as) ==
    IF as = << >> THEN k ELSE RunAssignments(Assign(k, Head(as)), Tail(as))

\* models = [cluster.SpectralClustering(n_clusters=4), cluster.KMeans(...),
\*           cluster.MiniBatchKMeans(...), cluster.AgglomerativeClustering(...)]
ModelNames ==
    <<"SpectralClustering", "KMeans", "MiniBatchKMeans", "AgglomerativeClustering">>

Unfitted(name) == [name |-> name, fitted |-> FALSE, on |-> "", labels_ |-> << >>]

\* itertools.combinations(range(n), 2): the first pair, and the pair after
\* <<i, j>> in lexicographic order.
first_combination == <<1, 2>>

\* Variant: pairs drawn with replacement.
next_combination_with_replacement(p, n) ==
    IF p[2] < n THEN <<p[1], p[2] + 1>> ELSE <<p[1] + 1, p[1] + 1>>

next_combination(p, n) ==
    IF p[2] < n THEN <<p[1], p[2] + 1>> ELSE <<p[1] + 1, p[1] + 2>>

combinations_exhausted(p, n) == p[2] > n

Line(what, p, score) == [what |-> what, i |-> p[1], j |-> p[2], score |-> score]

NbInit ==
    /\ labels_true = << >>
    /\ labels_pred = << >>
    /\ rand = Pending
    /\ mutual = Pending
    /\ pc = "cells"
    /\ step = 1
    /\ kernel = NoKernel
    /\ models = << >>
    /\ pair = <<0, 0>>
    /\ out = << >>

\* One of the earlier cells runs.
RunCell ==
    /\ pc = "cells"
    /\ step <= Len(Cells)
    /\ kernel' = RunAssignments(kernel, Cells[step].assign)
    /\ step' = step + 1
    /\ UNCHANGED <<pc, models, pair, out>>
    /\ UNCHANGED callvars

\* Variant: the fit cell does not bind X itself.
fit_cell_kernel_keep_X(k) == k

\* Lines 623-628: X = StandardScaler().fit_transform(boston.data) and the
\* list of four unfitted models.
fit_cell_kernel(k) == Assign(k, <<"X", "boston">>)

BeginFit ==
    /\ pc = "cells"
    /\ step > Len(Cells)
    /\ kernel' = fit_cell_kernel(kernel)
    /\ models' = [m \in DOMAIN ModelNames |-> Unfitted(ModelNames[m])]
    /\ pc' = "fit"
    /\ step' = 1
    /\ UNCHANGED <<pair, out>>
    /\ UNCHANGED callvars

\* Lines 630-634: model.fit(X) gives one label per sample of X.
FitModel ==
    /\ pc = "fit"
    /\ step <= Len(models)
    /\ \E labels \in [1..Samples(kernel.X) -> ClusterIds] :
          models' = [models EXCEPT ![step] =
                        [name |-> @.name, fitted |-> TRUE,
                         on |-> kernel.X, labels_ |-> labels]]
    /\ step' = step + 1
    /\ UNCHANGED <<pc, kernel, pair, out>>
    /\ UNCHANGED callvars

\* Line 654: the for statement takes the first pair, or finds none.
BeginLoop ==
    /\ pc = "fit"
    /\ step > Len(models)
    /\ pair' = first_combination
    /\ pc' = IF combinations_exhausted(first_combination, Len(models))
             THEN "done" ELSE "versus"
    /\ UNCHANGED <<step, kernel, models, out>>
    /\ UNCHANGED callvars

\* Variant: the loop variables stay bound to the first pair.
clust_stale(ms, p) == <<ms[1].labels_, ms[2].labels_>>

\* Lines 654, 656, 657: clust1, clust2 are the models of the current pair,
\* and the two arguments of each metric are clust1.labels_, clust2.labels_.
clust(ms, p) == <<ms[p[1]].labels_, ms[p[2]].labels_>>

\* Line 655: print(clust1.__class__.__name__, "versus", ...)
PrintVersus ==
    /\ pc = "versus"
    /\ out' = Append(out, Line("versus", pair, Pending))
    /\ pc' = "rand"
    /\ UNCHANGED <<step, kernel, models, pair>>
    /\ UNCHANGED callvars

\* Line 656: print("\tRand score:", metrics.adjusted_rand_score(...)).  An
\* exception is not caught: it ends the cell.
PrintRand ==
    /\ pc = "rand"
    /\ LET args == clust(models, pair)
           score == adjusted_rand_score(args[1], args[2])
       IN  IF score.kind = "raise"
           THEN pc' = "crashed" /\ out' = out
           ELSE pc' = "mutual" /\ out' = Append(out, Line("rand", pair, score))
    /\ UNCHANGED <<step, kernel, models, pair>>
    /\ UNCHANGED callvars

\* Line 657: print("\tMutual info:", metrics.adjusted_mutual_info_score(...)),
\* then line 654 takes the next pair.
loop_after_mutual(p, n) ==
    IF combinations_exhausted(next_combination(p, n), n) THEN "done" ELSE "versus"

PrintMutual ==
    /\ pc = "mutual"
    /\ LET args == clust(models, pair)
           score == adjusted_mutual_info_score(args[1], args[2])
       IN  IF score.kind = "raise"
           THEN pc' = "crashed" /\ out' = out /\ pair' = pair
           ELSE /\ out' = Append(out, Line("mutual", pair, score))
                /\ pair' = next_combination(pair, Len(models))
                /\ pc' = loop_after_mutual(pair, Len(models))
    /\ UNCHANGED <<step, kernel, models>>
    /\ UNCHANGED callvars

LoopNext == PrintVersus \/ PrintRand \/ PrintMutual

NbNext == RunCell \/ BeginFit \/ FitModel \/ BeginLoop \/ LoopNext

SpecNotebook == NbInit /\ [][NbNext]_vars

\* The comparison cell alone, run on whatever list of fitted models the
\* kernel holds: the label arrays are arbitrary and need not agree in length.
LoopArrays == UNION {[1..n -> ClusterIds] : n \in 0..BostonSamples}

LoopInit ==
    /\ labels_true = << >>
    /\ labels_pred = << >>
    /\ rand = Pending
    /\ mutual = Pending
    /\ step = 0
    /\ kernel = NoKernel
    /\ \E ls \in [DOMAIN ModelNames -> LoopArrays] :
          models = [m \in DOMAIN ModelNames |->
                       [name |-> ModelNames[m], fitted |-> TRUE,
                        on |-> "", labels_ |-> ls[m]]]
    /\ pair = first_combination
    /\ pc = "versus"
    /\ out = << >>

SpecLoop == LoopInit /\ [][LoopNext]_vars

----------------------------------------------------------------------------
\* Properties.

SameLength == Len(labels_true) = Len(labels_pred)

RandDone == rand.kind # "pending"

\* pi(A): the label array A with every label renamed by pi.
Relabel(pi, a) == [k \in DOMAIN a |-> pi[a[k]]]

\* Every injective renaming of the labels, also onto an integer no input uses.
Relabelings ==
    {pi \in [Labels -> Labels \cup {7}] :
        \A x, y \in Labels : pi[x] = pi[y] => x = y}

SameOutcome(o1, o2) ==
    o1.kind = o2.kind /\ o1.exc = o2.exc /\ o1.value = o2.value

\* C1: for equal-length A and B and every bijection pi on A's labels (the
\* noise sentinel -1 included), the adjusted Rand score of (pi(A), B) equals
\* that of (A, B); and A = [0,0,1,1], B = [1,1,0,0] scores 1.0.
C1_RelabelInvariant ==
    (RandDone /\ SameLength) =>
        /\ \A pi \in Relabelings :
              SameOutcome(adjusted_rand_score(Relabel(pi, labels_true), labels_pred),
                          rand)
        /\ (labels_true = <<0, 0, 1, 1>> /\ labels_pred = <<1, 1, 0, 0>>) =>
              (rand.kind = "return" /\ rand.value = One)

C1_Witness ==
    /\ RandDone
    /\ labels_true = <<-1, -1, 0, 1>>
    /\ labels_pred = <<0, 1, 1, 1>>
    /\ rand.kind = "return"
    /\ rand.at = "formula"

NonDegenerate(a) == Len(a) >= 2 /\ Cardinality(unique(a)) >= 2

\* C2: for every non-degenerate A (at least 2 samples, not all in one
\* cluster) the adjusted Rand score of (A, A) is exactly 1.
C2_SelfAgreement ==
    (RandDone /\ labels_true = labels_pred /\ NonDegenerate(labels_true)) =>
        (rand.kind = "return" /\ rand.value = One)

C2_Witness ==
    /\ RandDone
    /\ labels_true = <<0, 1, 1, -1>>
    /\ labels_pred = labels_true
    /\ rand.at = "formula"

\* C3: the adjusted Rand score is symmetric in its two arguments, an error
\* outcome included.
C3_Symmetric ==
    RandDone => SameOutcome(adjusted_rand_score(labels_pred, labels_true), rand)

C3_Witness ==
    /\ RandDone
    /\ labels_true = <<0, 0, 1, 1>>
    /\ labels_pred = <<0, 0, 1, -1>>
    /\ rand.kind = "return"
    /\ rand.value = <<4, 7>>

SingleCluster(a) == Cardinality(unique(a)) = 1

\* C5 as claimed: with every sample of both assignments in one single cluster
\* (A = B = [0,0,0,0]) the adjusted Rand score signals an error and returns
\* neither 1.0 nor NaN.
C5_Claimed ==
    (RandDone /\ labels_true = <<0, 0, 0, 0>> /\ labels_pred = <<0, 0, 0, 0>>) =>
        rand.kind = "raise"

\* C5 as amended: when both assignments (of equal length) place every sample
\* in one single cluster, the adjusted Rand score returns 1.0 and signals no
\* error.
C5_SingleClusterIsPerfect ==
    (RandDone /\ SameLength /\ SingleCluster(labels_true) /\ SingleCluster(labels_pred)) =>
        (rand.kind = "return" /\ rand.value = One)

C5_Witness ==
    /\ RandDone
    /\ labels_true = <<0, 0, 0, 0>>
    /\ labels_pred = <<0, 0, 0, 0>>
    /\ rand = Return("special_case", One)

\* Pair counts of the specification: a = pairs co-clustered in both
\* assignments, c = all pairs.
PairsTotal(a) == comb2(Len(a))

SamePairs(a, b) ==
    Cardinality({p \in (DOMAIN a) \X (DOMAIN a) :
                    p[1] < p[2] /\ a[p[1]] = a[p[2]] /\ b[p[1]] = b[p[2]]})

\* The chance-correction denominator (max - expected), scaled by 2c: zero
\* exactly when the maximum and the expected index coincide.
ChanceDenominator(a, b) ==
    PairsTotal(a) * (sum_comb_c(a, b) + sum_comb_k(a, b))
        - 2 * sum_comb_c(a, b) * sum_comb_k(a, b)

\* C6 as claimed: whenever the chance-correction denominator is zero, the
\* result is 1.0 if every sample pair is co-clustered in both assignments
\* (a = c) and otherwise an error is signalled.
C6_Claimed ==
    (RandDone /\ SameLength /\ ChanceDenominator(labels_true, labels_pred) = 0) =>
        IF SamePairs(labels_true, labels_pred) = PairsTotal(labels_true)
        THEN rand.kind = "return" /\ rand.value = One
        ELSE rand.kind = "raise"

\* C6 as amended: whenever the chance-correction denominator is zero, the
\* result is 1.0, whether every pair is co-clustered in both assignments or
\* (both assignments all singletons) none is; no error is signalled.
C6_ZeroDenominatorIsPerfect ==
    (RandDone /\ SameLength /\ ChanceDenominator(labels_true, labels_pred) = 0) =>
        (rand.kind = "return" /\ rand.value = One)

C6_Witness ==
    /\ RandDone
    /\ labels_true = <<0, 1, -1>>
    /\ labels_pred = <<1, -1, 0>>
    /\ ChanceDenominator(labels_true, labels_pred) = 0
    /\ SamePairs(labels_true, labels_pred) # PairsTotal(labels_true)
    /\ rand.kind = "return"

\* C7 as claimed: with fewer than 2 samples the adjusted Rand score signals
\* an error and returns no number.
C7_Claimed ==
    (RandDone /\ SameLength /\ Len(labels_true) < 2) => rand.kind = "raise"

\* C7 as amended: with fewer than 2 samples (N = 0 or N = 1, equal lengths)
\* the adjusted Rand score returns 1.0 and signals no error.
C7_TooFewSamplesIsPerfect ==
    (RandDone /\ SameLength /\ Len(labels_true) < 2) =>
        (rand.kind = "return" /\ rand.value = One)

C7_Witness ==
    /\ RandDone
    /\ labels_true = << >>
    /\ labels_pred = << >>
    /\ rand.kind = "return"

\* Raw Rand statistic of the specification: (pairs co-clustered in both +
\* pairs separated in both) / all pairs, counted pair by pair.
AgreeingPairs(a, b) ==
    Cardinality({p \in (DOMAIN a) \X (DOMAIN a) :
                    p[1] < p[2] /\ ((a[p[1]] = a[p[2]]) <=> (b[p[1]] = b[p[2]]))})

RawRand(a, b) == Ratio(AgreeingPairs(a, b), PairsTotal(a))

AllOnes2x2 == [ij \in {0, 1} \X {0, 1} |-> 1]

IsCrossed == labels_true = <<0, 0, 1, 1>> /\ labels_pred = <<0, 1, 0, 1>>

\* C8 as claimed: for A = [0,0,1,1], B = [0,1,0,1] the contingency table is
\* all ones, the raw Rand statistic is 0 and the adjusted Rand score is
\* negative or zero.
C8_Claimed ==
    (RandDone /\ IsCrossed) =>
        /\ contingency_matrix(labels_true, labels_pred) = AllOnes2x2
        /\ RawRand(labels_true, labels_pred) = <<0, 1>>
        /\ rand.kind = "return" /\ rand.value[1] <= 0

\* C8 as amended: for A = [0,0,1,1], B = [0,1,0,1] the contingency table is
\* all ones, the raw Rand statistic is 1/3 (no pair co-clustered in both, two
\* of the six pairs separated in both) and the adjusted Rand score is -1/2.
C8_CrossedPartitions ==
    (RandDone /\ IsCrossed) =>
        /\ contingency_matrix(labels_true, labels_pred) = AllOnes2x2
        /\ SamePairs(labels_true, labels_pred) = 0
        /\ RawRand(labels_true, labels_pred) = <<1, 3>>
        /\ rand.kind = "return" /\ rand.value = <<-1, 2>>

C8_Witness == RandDone /\ IsCrossed /\ rand.at = "formula"

\* C10: whenever the adjusted Rand score returns a value for equal-length
\* assignments, the value lies in [-1, 1].
C10_RandInRange ==
    (RandDone /\ SameLength /\ rand.kind = "return") =>
        (-rand.value[2] <= rand.value[1] /\ rand.value[1] <= rand.value[2])

C10_Witness ==
    /\ RandDone
    /\ labels_true = <<0, 0, 1>>
    /\ labels_pred = <<0, 1, 1>>
    /\ rand.kind = "return"
    /\ rand.value = <<-1, 2>>

MutualDone == mutual.kind # "pending"

\* C4: when A and B have different lengths, both the adjusted Rand score and
\* the adjusted mutual information score raise the length error in
\* check_clusterings, before any contingency counting, and return no score.
C4_LengthMismatchFailsFast ==
    ~SameLength =>
        /\ RandDone =>
              (rand.kind = "raise" /\ rand.at = "check_clusterings"
                  /\ rand.exc = "ValueError")
        /\ MutualDone =>
              (mutual.kind = "raise" /\ mutual.at = "check_clusterings"
                  /\ mutual.exc = "ValueError")

C4_Witness ==
    /\ labels_true = <<0, 0, 0>>
    /\ labels_pred = <<0, 0, 0, 0>>
    /\ mutual.kind = "raise"

\* Sign of a logarithm vector, from integer bounds on 10^5 * ln p:
\* 1, -1, 0, or 2 when the bounds do not separate it from zero.
LnLo == <<69314, 109861, 160943>>

LnHi == <<69315, 109862, 160944>>

LSign(v) ==
    LET lo == SumOver(1..3,
                 [i \in 1..3 |-> IF v[i] >= 0 THEN v[i] * LnLo[i] ELSE v[i] * LnHi[i]])
        hi == SumOver(1..3,
                 [i \in 1..3 |-> IF v[i] >= 0 THEN v[i] * LnHi[i] ELSE v[i] * LnLo[i]])
    IN  IF v = LZero THEN 0
        ELSE IF lo > 0 THEN 1
        ELSE IF hi < 0 THEN -1
        ELSE 2

\* A returned score lies in [0, 1].  A score decided by rounding error alone
\* is not constrained here.
InUnitInterval(o) ==
    CASE o.repr = "rational" -> 0 <= o.value[1] /\ o.value[1] <= o.value[2]
      [] o.repr = "logratio" ->
            /\ LSign(o.num) * LSign(o.den) \in {0, 1}
            /\ LSign(LSub(o.den, o.num)) * LSign(o.den) \in {0, 1}
      [] OTHER -> TRUE

\* C9 as claimed: both printed measures, the adjusted Rand score and the
\* adjusted mutual information score, lie between zero and one for every
\* pair of equal-length label assignments.
C9_Claimed ==
    SameLength =>
        /\ (RandDone /\ rand.kind = "return") => InUnitInterval(rand)
        /\ (MutualDone /\ mutual.kind = "return") => InUnitInterval(mutual)

----------------------------------------------------------------------------
\* Properties of the comparison loop.

\* Every unordered pair of positions in the list of models.
AllPairs == {p \in (DOMAIN models) \X (DOMAIN models) : p[1] < p[2]}

Printed(what, p) ==
    {k \in DOMAIN out : out[k].what = what /\ out[k].i = p[1] /\ out[k].j = p[2]}

Compared(p) == Printed("rand", p) # {} /\ Printed("mutual", p) # {}

\* A line telling that pair p could not be compared.
Reported(p) == Printed("failed", p) # {}

CellEnded == pc \in {"done", "crashed"}

----------------------------------------------------------------------------
\* Properties of the adjusted mutual information score.

EitherSingleLabel == SingleCluster(labels_true) \/ SingleCluster(labels_pred)

\* C12 as claimed: when either assignment has all samples under one label,
\* the adjusted mutual information score signals an error and returns no
\* numeric score.
C12_Claimed ==
    (MutualDone /\ SameLength /\ EitherSingleLabel) => mutual.kind = "raise"

\* C12 as amended: when either (equal-length) assignment has all samples
\* under one label, the adjusted mutual information score signals no error
\* and returns a number: 1 when both assignments have a single label, 0 when
\* only one has.
C12_SingleLabelReturnsNumber ==
    (MutualDone /\ SameLength /\ EitherSingleLabel) =>
        /\ mutual.kind = "return"
        /\ mutual.repr = "rational"
        /\ mutual.value =
              IF SingleCluster(labels_true) /\ SingleCluster(labels_pred)
              THEN One ELSE <<0, 1>>

C12_Witness ==
    /\ MutualDone
    /\ labels_true = <<0, 0, 0>>
    /\ labels_pred = <<0, 1, 1>>
    /\ mutual.kind = "return"
    /\ mutual.at = "formula"
    /\ mutual.value = <<0, 1>>

\* C13 as claimed: for every non-degenerate A (at least 2 samples, not all
\* in one cluster) the adjusted mutual information score of (A, A) is
\* exactly 1.
C13_Claimed ==
    (MutualDone /\ labels_true = labels_pred /\ NonDegenerate(labels_true)) =>
        (mutual.kind = "return" /\ mutual.repr = "rational" /\ mutual.value = One)

\* The score a metric gives to the label arrays that models i and j hold now.
ScoreNow(what, i, j) ==
    IF what = "rand"
    THEN adjusted_rand_score(models[i].labels_, models[j].labels_)
    ELSE adjusted_mutual_info_score(models[i].labels_, models[j].labels_)

ScoreLines == {k \in DOMAIN out : out[k].what \in {"rand", "mutual"}}

SameInputs(k1, k2) ==
    /\ out[k1].what = out[k2].what
    /\ models[out[k1].i].labels_ = models[out[k2].i].labels_
    /\ models[out[k1].j].labels_ = models[out[k2].j].labels_

PureOutcomes ==
    /\ \A k \in ScoreLines : out[k].score = ScoreNow(out[k].what, out[k].i, out[k].j)
    /\ \A k1, k2 \in ScoreLines : SameInputs(k1, k2) => out[k1].score = out[k2].score

LoopStages == {"versus", "rand", "mutual"}

LoopLeavesInputs == pc \in LoopStages => UNCHANGED <<models, kernel>>

ListOrder(p, q) == p[1] < q[1] \/ (p[1] = q[1] /\ p[2] < q[2])

PairOf(k) == <<out[k].i, out[k].j>>

\* C15: for the list of fitted models the comparison loop, once finished, has
\* evaluated every unordered pair of distinct models exactly once (6 pairs
\* for the 4 models), in list order, never a model against itself and never
\* a pair in both orders, and has printed exactly two scores per pair, the
\* Rand score and then the mutual information score.
C15_EachPairOnce ==
    /\ \A k \in DOMAIN out : out[k].i < out[k].j
    /\ \A p \in AllPairs :
          Cardinality(Printed("rand", p)) <= 1 /\ Cardinality(Printed("mutual", p)) <= 1
    /\ \A k1, k2 \in DOMAIN out :
          k1 < k2 => (PairOf(k1) = PairOf(k2) \/ ListOrder(PairOf(k1), PairOf(k2)))
    /\ \A k \in DOMAIN out :
          out[k].what = "mutual" =>
              k > 1 /\ out[k - 1].what = "rand" /\ PairOf(k - 1) = PairOf(k)
    /\ pc = "done" =>
          /\ Cardinality(AllPairs) = (Len(models) * (Len(models) - 1)) \div 2
          /\ Len(models) = 4 => Cardinality(AllPairs) = 6
          /\ \A p \in AllPairs :
                /\ Cardinality(Printed("rand", p)) = 1
                /\ Cardinality(Printed("mutual", p)) = 1
                /\ \A r \in Printed("rand", p) :
                      r + 1 \in Printed("mutual", p)
          /\ Cardinality(ScoreLines) = 2 * Cardinality(AllPairs)

C15_Witness ==
    /\ pc = "done"
    /\ Len(models) = 4
    /\ Cardinality(ScoreLines) = 12
    /\ PairOf(1) = <<1, 2>>
    /\ PairOf(Len(out)) = <<3, 4>>
    /\ out[Len(out)].what = "mutual"
    /\ models[1].labels_ # models[2].labels_

ComparisonStarted == pc \in LoopStages \cup {"done", "crashed"}

FittedOnBoston(m) ==
    /\ models[m].fitted
    /\ models[m].on = "boston"
    /\ Len(models[m].labels_) = BostonSamples

\* C16: when the cells run in order, from the moment the first pairwise
\* comparison starts every model of the list has been fitted on the scaled
\* Boston matrix X, so every two label arrays given to the metrics have the
\* same length N and no call fails on a length mismatch, whatever the earlier
\* cells bound to X or stored in a 'category' column.
C16_FittedOnSameX ==
    /\ pc # "crashed"
    /\ ComparisonStarted =>
          /\ DOMAIN models = DOMAIN ModelNames
          /\ \A m \in DOMAIN models : FittedOnBoston(m)
          /\ \A p \in AllPairs :
                Len(models[p[1]].labels_) = Len(models[p[2]].labels_)
    /\ \A k \in ScoreLines : out[k].score.kind = "return"

C16_Witness ==
    /\ pc = "versus"
    /\ pair = first_combination
    /\ out = << >>
    /\ kernel.X = "boston"
    /\ kernel.hdb = "california"
    /\ kernel.ca_df = "california"
    /\ kernel.boston_df = "boston"
    /\ \A m \in DOMAIN models : FittedOnBoston(m)
    /\ models[1].labels_ # models[2].labels_

====
